---- MODULE Spec2Model ----
(***************************************************************************)
(* A model of the File-cleanser Streamlit scripts:                         *)
(*   file_cleanser.py  - batch pipeline with AI summary, format-preserving *)
(*                       export and the session upload history;            *)
(*   app.py            - single-file extraction + anonymization;           *)
(*   File_analyser.py  - single-file variant with Groq "AI insights".      *)
(*                                                                         *)
(* A text is a sequence of one-character strings.  "p" stands for a        *)
(* character of personally identifiable information, the element Placeholder *)
(* for the anonymizer's replacement token (such as <PERSON>).              *)
(* A file name is a record [stem, ext]; str.endswith(suffix) tests ext.    *)
(***************************************************************************)
EXTENDS Integers, Sequences, FiniteSets, TLC

\* ------------------------------------------------------------------ bounds
MaxBatch == 2      \* files uploaded together (file_cleanser.py)
MaxRuns  == 2      \* script runs (Streamlit reruns) in one session
MaxCols  == 2      \* cells in a spreadsheet row

\* ------------------------------------------------------------ text helpers
\* openpyxl's value of an empty cell (a one-token text no real cell holds,
\* so that a cell is always a sequence)
None == <<"None">>
Placeholder == "<PII>"         \* the anonymizer's replacement token
Whitespace == {" ", "\n"}

\* the LLM's answer, and the fallback of file_cleanser.py line 131
LLMAnswer == "summary"
SummaryUnavailable == "AI summary unavailable."

\* text.strip(): truthy iff some character is not whitespace
StripIsEmpty(text) == \A i \in 1..Len(text) : text[i] \in Whitespace

\* Python truthiness of a cell value: None and "" are falsy
Truthy(cell) == cell # None /\ cell # <<>>

\* str(cell) if cell else ""
CellStr(cell) == IF Truthy(cell) THEN cell ELSE <<>>

RECURSIVE JoinSpace(_)
\* " ".join(strs)
JoinSpace(strs) ==
    IF strs = <<>> THEN <<>>
    ELSE IF Len(strs) = 1 THEN strs[1]
    ELSE strs[1] \o <<" ">> \o JoinSpace(Tail(strs))

RECURSIVE SplitAcc(_, _, _)
\* str.split(): scan left to right, cut at runs of whitespace, no empty tokens
SplitAcc(text, tok, out) ==
    IF text = <<>> THEN (IF tok = <<>> THEN out ELSE Append(out, tok))
    ELSE IF Head(text) \in Whitespace
         THEN SplitAcc(Tail(text), <<>>, IF tok = <<>> THEN out ELSE Append(out, tok))
         ELSE SplitAcc(Tail(text), Append(tok, Head(text)), out)

SplitWhitespace(text) == SplitAcc(text, <<>>, <<>>)

RECURSIVE SplitLinesAcc(_, _, _)
\* str.split("\n"): cut at every newline, empty pieces kept
SplitLinesAcc(text, line, out) ==
    IF text = <<>> THEN Append(out, line)
    ELSE IF Head(text) = "\n"
         THEN SplitLinesAcc(Tail(text), <<>>, Append(out, line))
         ELSE SplitLinesAcc(Tail(text), Append(line, Head(text)), out)

SplitLines(text) == SplitLinesAcc(text, <<>>, <<>>)

\* line[:n]
Truncate(line, n) == IF Len(line) <= n THEN line ELSE SubSeq(line, 1, n)

RECURSIVE ReverseSlice(_)
\* lst[::-1]
ReverseSlice(lst) ==
    IF lst = <<>> THEN <<>> ELSE Append(ReverseSlice(Tail(lst)), Head(lst))

\* ------------------------------------------------- Presidio (external)
IsPII(ch) == ch = "p"

\* analyzer.analyze(text, language="en"): the detected spans, here the maximal
\* runs of PII characters, as [start, end) offsets (1-based start).
Analyze(text) ==
    { s \in [start : 1..Len(text), end : 2..(Len(text) + 1)] :
        /\ s.start < s.end
        /\ \A i \in s.start..(s.end - 1) : IsPII(text[i])
        /\ (s.start = 1 \/ ~IsPII(text[s.start - 1]))
        /\ (s.end = Len(text) + 1 \/ ~IsPII(text[s.end])) }

RECURSIVE AnonymizeFrom(_, _, _)
AnonymizeFrom(text, spans, i) ==
    IF i > Len(text) THEN <<>>
    ELSE IF \E s \in spans : s.start = i
         THEN LET s == CHOOSE s \in spans : s.start = i
              IN  <<Placeholder>> \o AnonymizeFrom(text, spans, s.end)
         ELSE <<text[i]>> \o AnonymizeFrom(text, spans, i + 1)

\* anonymizer.anonymize(text, analyzer_results).text: every span replaced by
\* the placeholder token
Anonymize(text, spans) == AnonymizeFrom(text, spans, 1)

\* ------------------------------------------------------------- documents
\* Upper- and mixed-case suffixes pass st.file_uploader(type=[...]), whose
\* extension filter ignores case.
TxtExts   == {".txt", ".TXT"}
PdfExts   == {".pdf", ".PDF"}
DocxExts  == {".docx", ".DOCX", ".Docx"}
XlsxExts  == {".xlsx", ".XLSX"}
PptxExts  == {".pptx", ".PPTX"}
ImageExts == {".png", ".jpg", ".jpeg"}
Exts == TxtExts \cup PdfExts \cup DocxExts \cup XlsxExts \cup PptxExts \cup ImageExts

\* file.type is the media type the browser declares; "" when it knows none
ImageTypes == {"image/png", "image/jpeg"}
Types == {"text/plain", "application/pdf", "application/octet-stream", ""} \cup ImageTypes

\* str.endswith(suffixes) on a name [stem, ext]: case-sensitive
EndsWith(name, suffixes) == name.ext \in suffixes

\* file.type.startswith("image")
IsImageType(type) == type \in ImageTypes

RECURSIVE FlattenRow(_)
\* for cell in row: if cell: text += str(cell) + " "
FlattenRow(row) ==
    IF row = <<>> THEN <<>>
    ELSE (IF Truthy(Head(row)) THEN Head(row) \o <<" ">> ELSE <<>>) \o FlattenRow(Tail(row))

RECURSIVE FlattenSheet(_)
\* for row in sheet.iter_rows(values_only=True): ...; text += "\n"
FlattenSheet(rows) ==
    IF rows = <<>> THEN <<>>
    ELSE FlattenRow(Head(rows)) \o <<"\n">> \o FlattenSheet(Tail(rows))

\* The if/elif chain of extract_text (the same chain in app.py and
\* File_analyser.py): the branch taken, "none" when no condition holds.
ExtractBranch(file) ==
    IF file.type = "text/plain" THEN "txt"
    ELSE IF file.type = "application/pdf" THEN "pdf"
    ELSE IF EndsWith(file.name, {".docx", ".DOCX"}) THEN "docx"
    ELSE IF EndsWith(file.name, {".xlsx", ".XLSX"}) THEN "xlsx"
    ELSE IF EndsWith(file.name, {".pptx", ".PPTX"}) THEN "pptx"
    ELSE IF IsImageType(file.type) THEN "image"
    ELSE "none"

\* Does extract_text raise?  Only a branch that calls a decoder or parser can.
ExtractRaises(file) == ExtractBranch(file) # "none" /\ file.raises

\* The text extract_text returns when it does not raise; text = "" is never
\* reassigned when no branch is taken.
extract_text(file) ==
    CASE ExtractBranch(file) = "none" -> <<>>
      [] ExtractBranch(file) = "xlsx" -> FlattenSheet(file.rows)
      [] OTHER -> file.text

\* The if/elif chain of EXPORT CLEAN FILE, "none" when no condition holds.
ExportBranch(file) ==
    IF EndsWith(file.name, {".txt"}) THEN "txt"
    ELSE IF EndsWith(file.name, {".docx", ".DOCX"}) THEN "docx"
    ELSE IF EndsWith(file.name, {".xlsx", ".XLSX"}) THEN "xlsx"
    ELSE IF EndsWith(file.name, {".pptx", ".PPTX"}) THEN "pptx"
    ELSE IF IsImageType(file.type) \/ EndsWith(file.name, {".pdf"}) THEN "plain"
    ELSE "none"

\* slide.shapes.title.text = line[:100]
TitleLimit == 100

\* One row of the cleaned sheet: join the cells, anonymize the line, split it
\* on whitespace; token c goes to column c.
CleanRow(row) ==
    LET row_text == JoinSpace([c \in 1..Len(row) |-> CellStr(row[c])])
        anonymized_row_text == Anonymize(row_text, Analyze(row_text))
    IN  SplitWhitespace(anonymized_row_text)

\* new_sheet after the loop over the original sheet's rows
CleanSheet(rows) == [r \in 1..Len(rows) |-> CleanRow(rows[r])]

NoText == <<>>

\* file_name=f"cleaned_{file.name}" / f"cleaned_{file.name}.txt"
CleanedName(name, extra) == [prefix |-> "cleaned_", name |-> name, extra |-> extra]

\* The artifact a branch of EXPORT CLEAN FILE hands to st.download_button.
BuildArtifact(file, anonymized) ==
    LET base == [file_name |-> CleanedName(file.name, ""), kind |-> ExportBranch(file),
                 text |-> NoText, paragraphs |-> <<>>, rows |-> <<>>, slides |-> <<>>]
    IN  CASE ExportBranch(file) = "txt"  -> [base EXCEPT !.text = anonymized]
          [] ExportBranch(file) = "docx" -> [base EXCEPT !.paragraphs = SplitLines(anonymized)]
          [] ExportBranch(file) = "xlsx" -> [base EXCEPT !.rows = CleanSheet(file.rows)]
          [] ExportBranch(file) = "pptx" ->
                [base EXCEPT !.slides = [k \in 1..Len(SplitLines(anonymized)) |->
                                            Truncate(SplitLines(anonymized)[k], TitleLimit)]]
          [] OTHER -> [base EXCEPT !.text = anonymized,
                                   !.file_name = CleanedName(file.name, ".txt")]

\* Can the branch raise while rebuilding?  Only the branches that call
\* python-docx, openpyxl or python-pptx.
ExportCanRaise(file) == ExportBranch(file) \in {"docx", "xlsx", "pptx"}

\* app.py / File_analyser.py: file_name="cleaned_output.txt"
FixedArtifact(anonymized) ==
    [file_name |-> [prefix |-> "cleaned_", name |-> [stem |-> "output", ext |-> ".txt"], extra |-> ""],
     kind |-> "txt", text |-> anonymized, paragraphs |-> <<>>, rows |-> <<>>, slides |-> <<>>]

\* PromptTemplate(input_variables=["text"], ...).format: only {text} is
\* substituted; the memory's chat_history is loaded by the chain but the
\* template has no slot for it.
FormatPrompt(text, chat_history) ==
    [template |-> "Summarize the following text concisely", text |-> text]

\* File_analyser.py: f"Summarize and analyze this text:\n\n{anonymized.text}"
InsightsPrompt(text) ==
    [template |-> "Summarize and analyze this text", text |-> text]

\* ------------------------------------------------------- sample documents
FileName(stem, ext) == [stem |-> stem, ext |-> ext]

File(name, type, raises, text, rows) ==
    [name |-> name, type |-> type, raises |-> raises, text |-> text, rows |-> rows]

PIIText == <<"p", "p", " ", "a", "\n", "b">>
SampleTexts == {<<>>, <<" ">>, PIIText}
SampleRows == << <<<<"a">>, <<"p", "p">>>> >>

\* Every (suffix, media type) the uploader lets through, with each sample
\* content, readable or not by the parser its branch calls.
AllKindFiles ==
    { File(FileName("doc", e), t, r, x, IF e \in XlsxExts THEN SampleRows ELSE <<>>) :
        e \in Exts, t \in Types \cup {"application/vnd.openxmlformats-officedocument.spreadsheetml.sheet"},
        r \in BOOLEAN, x \in SampleTexts }

Cells == {None, <<"a">>, <<"p">>, <<"a", " ", "b">>}
Rows == UNION {[1..n -> Cells] : n \in 1..MaxCols}

\* Workbooks of one sheet with one row
SheetFiles ==
    { File(FileName("book", ".xlsx"),
           "application/vnd.openxmlformats-officedocument.spreadsheetml.sheet",
           FALSE, <<>>, <<row>>) : row \in Rows }

BatchFiles ==
    { File(FileName("notes", ".txt"), "text/plain", FALSE, PIIText, <<>>),
      File(FileName("empty", ".txt"), "text/plain", FALSE, <<>>, <<>>),
      File(FileName("scan", ".pdf"), "application/pdf", TRUE, <<>>, <<>>),
      File(FileName("REPORT", ".TXT"), "text/plain", FALSE, <<"a">>, <<>>),
      File(FileName("deck", ".pptx"), "", FALSE, <<"a", "\n", "p">>, <<>>),
      File(FileName("book", ".xlsx"),
           "application/vnd.openxmlformats-officedocument.spreadsheetml.sheet",
           FALSE, <<>>, SampleRows) }

Batches == UNION {[1..n -> BatchFiles] : n \in 0..MaxBatch}

\* ------------------------------------------------------------------ state
VARIABLES
    app,             \* the script that runs: "file_cleanser", "app", "File_analyser"
    env_key,         \* is GROQ_API_KEY set in the environment
    uploaded_files,  \* what the file uploader returns (a sequence; one file at most for app / File_analyser)
    session_keys,    \* the keys present in st.session_state
    upload_history,  \* st.session_state.upload_history
    runs,            \* script runs so far in this session (also the clock of datetime.now())
    pc,              \* position of the running script
    cur,             \* index of `file` in the for loop
    error,           \* what raised, when the run was aborted
    memory,          \* the ConversationBufferMemory of this run
    original_text,   \* per file: original_text / text
    anonymized_text, \* per file: anonymized_text / anonymized.text
    ai_summary,      \* per file: ai_summary / ai_response
    stage,           \* per file: the pipeline stage reached
    download,        \* per file: the st.download_button offered (<<>> or <<artifact>>)
    warning,         \* per file: st.warning("No text could be extracted ...") shown
    analyzer_calls,  \* texts handed to analyzer.analyze in this run
    llm_prompts,     \* prompts handed to the Groq client in this run
    displayed        \* the upload history as written to the page in this run

vars == <<app, env_key, uploaded_files, session_keys, upload_history, runs, pc, cur,
          error, memory, original_text, anonymized_text, ai_summary, stage,
          download, warning, analyzer_calls, llm_prompts, displayed>>

session == <<app, env_key, uploaded_files>>

N == Len(uploaded_files)
Docs == 1..N
file == uploaded_files[cur]

Unset == <<"<unset>">>
NoSummary == "<unset>"

\* The script's variables at the top of a run
FreshRun ==
    /\ memory' = <<>>
    /\ original_text' = [i \in Docs |-> Unset]
    /\ anonymized_text' = [i \in Docs |-> Unset]
    /\ ai_summary' = [i \in Docs |-> NoSummary]
    /\ stage' = [i \in Docs |-> "Uploaded"]
    /\ download' = [i \in Docs |-> <<>>]
    /\ warning' = [i \in Docs |-> FALSE]
    /\ analyzer_calls' = <<>>
    /\ llm_prompts' = <<>>
    /\ displayed' = <<>>

Init ==
    /\ \/ /\ app = "file_cleanser"
          /\ uploaded_files \in Batches \cup {<<f>> : f \in SheetFiles}
       \/ /\ app \in {"file_cleanser", "app", "File_analyser"}
          /\ uploaded_files \in {<<>>} \cup {<<f>> : f \in AllKindFiles}
    /\ env_key \in BOOLEAN
    /\ session_keys = {}
    /\ upload_history = <<>>
    /\ runs = 0
    /\ pc = "idle"
    /\ cur = 1
    /\ error = "none"
    /\ memory = <<>>
    /\ original_text = [i \in Docs |-> Unset]
    /\ anonymized_text = [i \in Docs |-> Unset]
    /\ ai_summary = [i \in Docs |-> NoSummary]
    /\ stage = [i \in Docs |-> "Uploaded"]
    /\ download = [i \in Docs |-> <<>>]
    /\ warning = [i \in Docs |-> FALSE]
    /\ analyzer_calls = <<>>
    /\ llm_prompts = <<>>
    /\ displayed = <<>>

SessionInitAlways(keys, history) == <<>>

\* if "upload_history" not in st.session_state: st.session_state.upload_history = []
SessionInit(keys, history) ==
    IF "upload_history" \in keys THEN history ELSE <<>>

\* GroqLLM(api_key=groq_api_key): the field is declared `api_key: str`, so the
\* model's validation rejects None (os.getenv of an unset variable).
GroqLLMRaises(key_set) == ~key_set

\* Where the script stands after its prologue
AfterPrologue(a, n, key_set) ==
    IF a = "file_cleanser"
    THEN IF n = 0 THEN "display"
         ELSE IF GroqLLMRaises(key_set) THEN "aborted" ELSE "loop"
    ELSE IF n = 0 THEN "done" ELSE "loop"

\* A script run starts: Streamlit runs the script top to bottom on the first
\* page load and again on every widget interaction, with the same session.
StartRun ==
    /\ pc \in {"idle", "done", "aborted"}
    /\ runs < MaxRuns
    /\ runs' = runs + 1
    /\ FreshRun
    /\ cur' = 1
    /\ IF app = "file_cleanser"
       THEN /\ session_keys' = session_keys \cup {"upload_history"}
            /\ upload_history' = SessionInit(session_keys, upload_history)
       ELSE UNCHANGED <<session_keys, upload_history>>
    /\ \E client_raises \in (IF app = "File_analyser" /\ ~env_key THEN BOOLEAN ELSE {FALSE}) :
          \* File_analyser.py line 58: Groq(api_key=None) may refuse to construct
          IF client_raises
          THEN pc' = "aborted" /\ error' = "Groq"
          ELSE /\ pc' = AfterPrologue(app, N, env_key)
               /\ error' = IF pc' = "aborted" THEN "GroqLLM" ELSE "none"
    /\ UNCHANGED session

\* original_text = extract_text(file)
ExtractText ==
    /\ pc = "loop"
    /\ cur <= N
    /\ IF ExtractRaises(file)
       THEN /\ stage' = [stage EXCEPT ![cur] = "ExtractionFailed"]
            /\ pc' = "aborted"
            /\ error' = "extract_text"
            /\ UNCHANGED original_text
       ELSE /\ original_text' = [original_text EXCEPT ![cur] = extract_text(file)]
            /\ stage' = [stage EXCEPT ![cur] = "Extracted"]
            /\ pc' = "extracted"
            /\ UNCHANGED error
    /\ UNCHANGED <<session, session_keys, upload_history, runs, cur, memory, anonymized_text,
                   ai_summary, download, warning, analyzer_calls, llm_prompts, displayed>>

\* the for loop is exhausted
LoopExit ==
    /\ pc = "loop"
    /\ cur > N
    /\ pc' = "display"
    /\ UNCHANGED <<session, session_keys, upload_history, runs, cur, error, memory,
                   original_text, anonymized_text, ai_summary, stage, download, warning,
                   analyzer_calls, llm_prompts, displayed>>

\* {"filename": file.name, "timestamp": datetime.now()...}
UploadRecord(f, now) == [filename |-> f.name, timestamp |-> now]

\* st.session_state.upload_history.append({...}), right after extract_text returned
AppendHistory ==
    /\ app = "file_cleanser"
    /\ pc = "extracted"
    /\ upload_history' = Append(upload_history, UploadRecord(file, runs))
    /\ pc' = "appended"
    /\ UNCHANGED <<session, session_keys, runs, cur, error, memory, original_text,
                   anonymized_text, ai_summary, stage, download, warning, analyzer_calls,
                   llm_prompts, displayed>>

\* app.py / File_analyser.py: `if text.strip():` ... else: st.warning(...)
HasText(text) == ~StripIsEmpty(text)

EmptyWarning ==
    /\ app # "file_cleanser"
    /\ pc = "extracted"
    /\ ~HasText(original_text[cur])
    /\ warning' = [warning EXCEPT ![cur] = TRUE]
    /\ stage' = [stage EXCEPT ![cur] = "EmptyContent"]
    /\ pc' = "done"
    /\ UNCHANGED <<session, session_keys, upload_history, runs, cur, error, memory,
                   original_text, anonymized_text, ai_summary, download, analyzer_calls,
                   llm_prompts, displayed>>

\* Is the script about to call the analyzer for the current file?
\* file_cleanser.py calls it unconditionally after the history append.
ReadyToAnonymize ==
    IF app = "file_cleanser" THEN pc = "appended"
    ELSE pc = "extracted" /\ HasText(original_text[cur])

\* results = analyzer.analyze(...); anonymized_text = anonymizer.anonymize(...).text
AnonymizeText ==
    /\ ReadyToAnonymize
    /\ analyzer_calls' = Append(analyzer_calls, [doc |-> cur, text |-> original_text[cur]])
    /\ \E raises \in BOOLEAN :
          IF raises
          THEN /\ stage' = [stage EXCEPT ![cur] = "RedactionFailed"]
               /\ pc' = "aborted"
               /\ error' = "presidio"
               /\ UNCHANGED anonymized_text
          ELSE /\ anonymized_text' = [anonymized_text EXCEPT
                      ![cur] = Anonymize(original_text[cur], Analyze(original_text[cur]))]
               /\ stage' = [stage EXCEPT ![cur] = "Redacted"]
               /\ pc' = "anonymized"
               /\ UNCHANGED error
    /\ UNCHANGED <<session, session_keys, upload_history, runs, cur, memory, original_text,
                   ai_summary, download, warning, llm_prompts, displayed>>

SummaryInputRaw(i) == original_text[i]

\* The text chain.run(text=...) is given
SummaryInput(i) == anonymized_text[i]

ReadyToSummarizeEarly == app = "file_cleanser" /\ pc = "appended"

\* Is the script about to build the chain and run it for the current file?
\* The AI SUMMARIZATION block follows the ANONYMIZE block.
ReadyToSummarize == app = "file_cleanser" /\ pc = "anonymized"

\* chain = LLMChain(...); try: ai_summary = chain.run(text=anonymized_text)
\* except: ai_summary = "AI summary unavailable."
Summarize ==
    /\ ReadyToSummarize
    /\ llm_prompts' = Append(llm_prompts,
                             [doc |-> cur, prompt |-> FormatPrompt(SummaryInput(cur), memory)])
    /\ \E raises \in BOOLEAN :
          IF raises
          THEN /\ ai_summary' = [ai_summary EXCEPT ![cur] = SummaryUnavailable]
               /\ UNCHANGED memory
          ELSE /\ ai_summary' = [ai_summary EXCEPT ![cur] = LLMAnswer]
               /\ memory' = Append(memory, [input |-> SummaryInput(cur), output |-> LLMAnswer])
    /\ stage' = [stage EXCEPT ![cur] = "Summarized"]
    /\ pc' = "summarized"
    /\ UNCHANGED <<session, session_keys, upload_history, runs, cur, error, original_text,
                   anonymized_text, download, warning, analyzer_calls, displayed>>

\* EXPORT CLEAN FILE: the branch rebuilds the document and offers the download
\* button; when no condition of the chain holds nothing is offered.  Then the
\* loop goes on to the next file.
ExportCleanFile ==
    /\ app = "file_cleanser"
    /\ pc = "summarized"
    /\ \E raises \in (IF ExportCanRaise(file) THEN BOOLEAN ELSE {FALSE}) :
          IF raises
          THEN /\ stage' = [stage EXCEPT ![cur] = "ReconstructionFailed"]
               /\ pc' = "aborted"
               /\ error' = "export"
               /\ UNCHANGED <<download, cur>>
          ELSE /\ IF ExportBranch(file) = "none"
                  THEN UNCHANGED <<download, stage>>
                  ELSE /\ download' = [download EXCEPT
                              ![cur] = <<BuildArtifact(file, anonymized_text[cur])>>]
                       /\ stage' = [stage EXCEPT ![cur] = "Downloadable"]
               /\ pc' = "loop"
               /\ cur' = cur + 1
               /\ UNCHANGED error
    /\ UNCHANGED <<session, session_keys, upload_history, runs, memory, original_text,
                   anonymized_text, ai_summary, warning, analyzer_calls, llm_prompts, displayed>>

\* app.py / File_analyser.py: st.download_button(..., file_name="cleaned_output.txt")
DownloadCleanedText ==
    /\ app # "file_cleanser"
    /\ pc = "anonymized"
    /\ download' = [download EXCEPT ![cur] = <<FixedArtifact(anonymized_text[cur])>>]
    /\ stage' = [stage EXCEPT ![cur] = "Downloadable"]
    /\ pc' = IF app = "File_analyser" THEN "insights" ELSE "done"
    /\ UNCHANGED <<session, session_keys, upload_history, runs, cur, error, memory,
                   original_text, anonymized_text, ai_summary, warning, analyzer_calls,
                   llm_prompts, displayed>>

\* File_analyser.py: if groq_api_key: try: client.chat.completions.create(...)
\* except Exception: st.error(...)   else: st.info(...)
AIInsights ==
    /\ app = "File_analyser"
    /\ pc = "insights"
    /\ IF env_key
       THEN /\ llm_prompts' = Append(llm_prompts,
                                     [doc |-> cur, prompt |-> InsightsPrompt(anonymized_text[cur])])
            /\ \E raises \in BOOLEAN :
                  ai_summary' = [ai_summary EXCEPT
                                    ![cur] = IF raises THEN "Groq API error" ELSE LLMAnswer]
       ELSE UNCHANGED <<llm_prompts, ai_summary>>
    /\ pc' = "done"
    /\ UNCHANGED <<session, session_keys, upload_history, runs, cur, error, memory,
                   original_text, anonymized_text, stage, download, warning, analyzer_calls,
                   displayed>>

\* for i, entry in enumerate(st.session_state.upload_history[::-1], start=1): st.write(...)
DisplayHistory ==
    /\ pc = "display"
    /\ displayed' = ReverseSlice(upload_history)
    /\ pc' = "done"
    /\ UNCHANGED <<session, session_keys, upload_history, runs, cur, error, memory,
                   original_text, anonymized_text, ai_summary, stage, download, warning,
                   analyzer_calls, llm_prompts>>

Next ==
    \/ StartRun
    \/ ExtractText
    \/ LoopExit
    \/ AppendHistory
    \/ EmptyWarning
    \/ AnonymizeText
    \/ Summarize
    \/ ExportCleanFile
    \/ DownloadCleanedText
    \/ AIInsights
    \/ DisplayHistory

Spec == Init /\ [][Next]_vars

\* ================================================================ claims
RunEnded == runs > 0 /\ pc \in {"done", "aborted"}
FailedStages == {"ExtractionFailed", "RedactionFailed", "ReconstructionFailed"}
NoPII(text) == \A k \in 1..Len(text) : text[k] # "p"
IsPrefix(s, t) == Len(s) <= Len(t) /\ \A k \in 1..Len(s) : s[k] = t[k]

\* C1: in the batch loop of file_cleanser.py, when a document d fails in
\* extraction, redaction or reconstruction, every document after d in the
\* batch is still processed: once the run has ended none of them is left
\* untouched in the Uploaded stage.
C1_FailureDoesNotAbortBatch ==
    (app = "file_cleanser" /\ RunEnded) =>
        \A d \in Docs : \A j \in Docs :
            (stage[d] \in FailedStages /\ j > d) => stage[j] # "Uploaded"

\* C2: no failure of the summarization stage propagates: a run is never
\* aborted because the summarizer is unusable, and every document that got
\* past summarization carries the LLM's answer or the placeholder
\* "AI summary unavailable.".
C2_SummarizerFailureContained ==
    app = "file_cleanser" =>
        /\ ~(pc = "aborted" /\ error = "GroqLLM")
        /\ \A i \in Docs :
              stage[i] \in {"Summarized", "Downloadable", "ReconstructionFailed"}
                 => ai_summary[i] \in {LLMAnswer, SummaryUnavailable}

Succeeded(i) == stage[i] = "Downloadable" /\ ~StripIsEmpty(original_text[i])

RECURSIVE SuccessRecords(_)
\* the records of the documents 1..n that succeeded, in order
SuccessRecords(n) ==
    IF n = 0 THEN <<>>
    ELSE IF Succeeded(n)
         THEN Append(SuccessRecords(n - 1), [filename |-> uploaded_files[n].name, timestamp |-> runs])
         ELSE SuccessRecords(n - 1)

\* C3: an UploadRecord is appended exactly once per document and only on
\* success: when the first run of a session has ended, the history holds
\* exactly the records of the documents that reached Downloadable with
\* non-empty content.
C3_RecordOnlyOnSuccess ==
    (app = "file_cleanser" /\ RunEnded /\ runs = 1) =>
        upload_history = SuccessRecords(N)

\* C4: the upload history is append-only across the script runs of a session
\* (every step leaves the old history a prefix of the new one), and what the
\* script displays is the stored list in reverse, most recent first.
C4_HistoryAppendOnly ==
    [][/\ IsPrefix(upload_history, upload_history')
       /\ (pc = "display" /\ pc' = "done") =>
             /\ Len(displayed') = Len(upload_history')
             /\ \A k \in 1..Len(displayed') :
                   displayed'[k] = upload_history'[Len(upload_history') - k + 1]]_vars

\* C4 witness: a second run displayed a history that grew over both runs
C4_Witness ==
    /\ runs = 2
    /\ pc = "done"
    /\ Len(displayed) >= 2
    /\ displayed[1].timestamp = 2
    /\ displayed[Len(displayed)].timestamp = 1

\* C5: a document whose extraction yields no text (empty or whitespace only)
\* is EmptyContent: the analyzer is not called on it, no download is offered
\* for it, and once the run has ended the warning has been shown.
C5_EmptyContentSkipsPipeline ==
    \A i \in Docs :
        (original_text[i] # Unset /\ StripIsEmpty(original_text[i])) =>
            /\ \A k \in 1..Len(analyzer_calls) : analyzer_calls[k].doc # i
            /\ download[i] = <<>>
            /\ stage[i] \in {"Extracted", "EmptyContent"}
            /\ (pc = "done" => warning[i])

\* C6: every document of file_cleanser.py that has text, was redacted and
\* whose loop iteration ran through (nothing raised) has a download artifact,
\* named cleaned_<name> or cleaned_<name>.txt, whatever its suffix and media
\* type.
C6_RedactedEndsDownloadable ==
    app = "file_cleanser" =>
        \A i \in Docs :
            (i < cur /\ anonymized_text[i] # Unset /\ ~StripIsEmpty(original_text[i])) =>
                /\ download[i] # <<>>
                /\ download[i][1].file_name \in
                      {CleanedName(uploaded_files[i].name, ""),
                       CleanedName(uploaded_files[i].name, ".txt")}

\* C7: in file_cleanser.py a document whose kind cannot be resolved (no branch
\* of extract_text accepts its suffix and media type) is never treated as
\* extracted: its extraction does not return a text.
C7_UnresolvedKindFails ==
    \A i \in Docs :
        (app = "file_cleanser" /\ ExtractBranch(uploaded_files[i]) = "none") =>
            (original_text[i] = Unset /\ stage[i] \in {"Uploaded", "ExtractionFailed"})

\* C8: when the detector finds nothing in a spreadsheet row, the rebuilt row
\* equals the original cell for cell: column c holds the original value of
\* column c, and an empty cell stays empty.
C8_ColumnsStable ==
    \A i \in Docs :
        (download[i] # <<>> /\ download[i][1].kind = "xlsx") =>
            \A r \in 1..Len(uploaded_files[i].rows) :
                LET orig == uploaded_files[i].rows[r]
                    new  == download[i][1].rows[r]
                IN  (\A c \in 1..Len(orig) : NoPII(orig[c])) =>
                        \A c \in 1..Len(orig) :
                            IF Truthy(orig[c])
                            THEN c <= Len(new) /\ new[c] = orig[c]
                            ELSE c > Len(new)

StageRank(s) ==
    CASE s = "Uploaded" -> 0
      [] s = "Extracted" -> 1
      [] s = "Redacted" -> 2
      [] s = "Summarized" -> 3
      [] s = "Downloadable" -> 4
      [] OTHER -> 9

\* the stage a failure state is entered from
FailsFrom(s) ==
    CASE s = "ExtractionFailed" -> {"Uploaded"}
      [] s = "RedactionFailed" -> {"Extracted"}
      [] s = "ReconstructionFailed" -> {"Redacted", "Summarized"}
      [] OTHER -> {}

\* a legal move of one document's stage: the next stage of the pipeline
\* (Summarized is optional), or the failure state of the stage it is in
LegalMove(s, t) ==
    \/ StageRank(t) = StageRank(s) + 1
    \/ s = "Redacted" /\ t = "Downloadable"
    \/ s \in FailsFrom(t)

C10_PromptIsRedactedText ==
    \A k \in 1..Len(llm_prompts) :
        LET e == llm_prompts[k]
        IN  /\ stage[e.doc] \in {"Summarized", "Downloadable", "ReconstructionFailed"}
            /\ anonymized_text[e.doc] # Unset
            /\ e.prompt.text = anonymized_text[e.doc]
            /\ NoPII(e.prompt.text)

\* C10 witness: the second document of a batch, whose text holds PII, was
\* sent to the summarizer while the memory held the first document's exchange
C10_Witness ==
    /\ Len(llm_prompts) = 2
    /\ llm_prompts[2].doc = 2
    /\ Len(memory) >= 1
    /\ ~NoPII(original_text[2])

====
